---- MODULE Spec2Model ----
(***************************************************************************)
(* Model of the frame-acquisition pipeline of fylvur-rs (src/src/video.rs):*)
(*   - get_video_atlas : tile range, canvas shape, blank page              *)
(*   - get_frame       : the sampling loop (seek, send packet, receive)    *)
(*   - get_scaler / decode_frame : planned scale and final frame size      *)
(*   - fix_img_data    : stride repair                                     *)
(*   - the compositing loop of get_video_atlas                             *)
(* and of the matrix helpers of src/src/math.rs:                           *)
(*   - parse_display_matrix : side data bytes to a 3x3 matrix              *)
(*   - rotate_frame         : per-pixel transform of a frame               *)
(* Each component has its own specification over the shared variables; the *)
(* variables of the other components stay at their idle values.            *)
(*                                                                         *)
(* Numbers: TLC integers are 32 bit signed, so the u32/usize values of the *)
(* program are modelled in a range far below 2^31 where Rust's arithmetic  *)
(* is the mathematical one; \div on non-negative operands is Rust's        *)
(* truncating division.  Faults that need no wide value (division by zero, *)
(* an unsigned difference below zero) are modelled as the panic they are.  *)
(***************************************************************************)
EXTENDS Integers, Sequences, FiniteSets

VARIABLES
  \* ---- get_video_atlas
  page_i, frame_step, duration,
  atlas_pc, tile_index_start, tile_index_end, tile_count,
  out_width, out_height, sampled, atlas_result,
  \* ---- get_frame (sampling loop)
  overflow_checks, has_video, packets, frame_time, frame_count, fps,
  pc, cursor, seconds, frames, send_res, recv_res, ran_out, result,
  \* ---- get_scaler / decode_frame / tile offsets
  dec_width, dec_height, req_width, matrix_present, rotation, max_height,
  scale_pc, frame_width, scaler_dst_w, scaler_dst_h, frm_width, frm_height,
  blank_width_offset, blank_height_offset, scale_result,
  \* ---- fix_img_data
  width, height, stride, data, fix_pc, fixed,
  \* ---- parse_display_matrix
  bytes, parse_pc, matrix, parse_result, failed_range,
  \* ---- rotate_frame
  src_width, src_len, dst_width, dst_len, transform,
  rot_pc, dst_writes, rot_result,
  \* ---- get_video_atlas, compositing loop
  thumb_pos, tile_width, tile_height, blit_writes

atlasVars == <<page_i, frame_step, duration, atlas_pc, tile_index_start,
               tile_index_end, tile_count, out_width, out_height, sampled,
               atlas_result>>
loopVars  == <<overflow_checks, has_video, packets, frame_time, frame_count, fps, pc, cursor,
               seconds, frames, send_res, recv_res, ran_out, result>>
scaleVars == <<dec_width, dec_height, req_width, matrix_present, rotation,
               max_height, scale_pc, frame_width, scaler_dst_w, scaler_dst_h,
               frm_width, frm_height, blank_width_offset,
               blank_height_offset, scale_result>>
fixVars   == <<width, height, stride, data, fix_pc, fixed>>
parseVars == <<bytes, parse_pc, matrix, parse_result, failed_range>>
rotVars   == <<src_width, src_len, dst_width, dst_len, transform,
               rot_pc, dst_writes, rot_result>>
blitVars  == <<thumb_pos, tile_width, tile_height, blit_writes>>
vars      == <<atlasVars, loopVars, scaleVars, fixVars, parseVars, rotVars,
               blitVars>>

(* What a step of one component leaves alone. *)
notAtlas == <<loopVars, scaleVars, fixVars, parseVars, rotVars, blitVars>>
notLoop  == <<atlasVars, scaleVars, fixVars, parseVars, rotVars, blitVars>>
notScale == <<atlasVars, loopVars, fixVars, parseVars, rotVars, blitVars>>
notFix   == <<atlasVars, loopVars, scaleVars, parseVars, rotVars, blitVars>>
notParse == <<atlasVars, loopVars, scaleVars, fixVars, rotVars, blitVars>>
notRot   == <<atlasVars, loopVars, scaleVars, fixVars, parseVars, blitVars>>
notBlit  == <<loopVars, scaleVars, fixVars, parseVars, rotVars>>

----------------------------------------------------------------------------
(* Program constants (video.rs:22-26, math.rs:5).                          *)
MAX_ATLAS_TILE_WIDTH  == 10
MAX_ATLAS_TILE_HEIGHT == 10
ATLAS_TILE_WIDTH      == 80
ATLAS_TILE_HEIGHT     == 45
MAX_ATLAS_TILES       == MAX_ATLAS_TILE_WIDTH * MAX_ATLAS_TILE_HEIGHT
PX_BYTES              == 4

(* std::cmp::min / std::cmp::max *)
Min(a, b) == IF a <= b THEN a ELSE b
Max(a, b) == IF a >= b THEN a ELSE b

----------------------------------------------------------------------------
(* Bounds of the model.                                                    *)
MaxPage         == 2     \* page_i in 0..MaxPage
MaxStep         == 3     \* frame_step in 0..MaxStep
MaxDurationSecs == 120   \* container duration, whole seconds

(* Idle values of a component that a specification does not exercise.      *)
AtlasIdle ==
  /\ page_i = 0 /\ frame_step = 0 /\ duration = 0
  /\ atlas_pc = "idle" /\ tile_index_start = 0 /\ tile_index_end = 0
  /\ tile_count = 0 /\ out_width = 0 /\ out_height = 0
  /\ sampled = FALSE /\ atlas_result = "none"

----------------------------------------------------------------------------
(* get_video_atlas (video.rs:37-125).                                      *)
(* `duration` is the value get_duration returns: milliseconds.  For the    *)
(* whole-second durations of this range the f32 conversion of get_duration *)
(* (video.rs:405-408) is exact, so a D second container gives D * 1000.    *)
Durations == { 1000 * s + r : s \in 0..MaxDurationSecs, r \in {0, 500} }

(* video.rs:47 *)
TileIndexStart(p) == p * MAX_ATLAS_TILES

(* video.rs:50: get_duration(..) as u32 / 1000 / frame_step (step # 0) *)
AtlasMaxFrames(d, step) == (d \div 1000) \div step

(* video.rs:48-54 *)
TileIndexEnd(p, d, step) ==
  Min((p + 1) * MAX_ATLAS_TILES,
      LET max_frames == AtlasMaxFrames(d, step)
          modulo     == max_frames % step
      IN  max_frames + (step - modulo))

(* video.rs:55-58 *)
TileCount(start, end) == Max(0, end - start)

(* video.rs:70-73 *)
OutWidth(tc) == ATLAS_TILE_WIDTH * Min(tc, MAX_ATLAS_TILE_WIDTH)

(* video.rs:74-77 *)
OutHeight(tc) ==
  ATLAS_TILE_HEIGHT * Min((tc \div MAX_ATLAS_TILE_WIDTH) + 1, MAX_ATLAS_TILE_HEIGHT)

AtlasInit ==
  /\ page_i \in 0..MaxPage
  /\ frame_step \in 0..MaxStep
  /\ duration \in Durations
  /\ atlas_pc = "open"
  /\ tile_index_start = 0 /\ tile_index_end = 0 /\ tile_count = 0
  /\ out_width = 0 /\ out_height = 0
  /\ sampled = FALSE
  /\ atlas_result = "none"

(* video.rs:42-45: format::input fails, a structured error is returned. *)
AtlasOpenFail ==
  /\ atlas_pc = "open"
  /\ atlas_pc' = "done"
  /\ atlas_result' = "err"
  /\ UNCHANGED <<page_i, frame_step, duration, tile_index_start, tile_index_end,
                 tile_count, out_width, out_height, sampled>>
  /\ UNCHANGED notAtlas

(* video.rs:47-58 with frame_step = 0: `/ frame_step` panics (attempt to   *)
(* divide by zero) in every build profile.                                 *)
AtlasPlanPanic ==
  /\ atlas_pc = "open"
  /\ frame_step = 0
  /\ atlas_pc' = "done"
  /\ atlas_result' = "panic"
  /\ UNCHANGED <<page_i, frame_step, duration, tile_index_start, tile_index_end,
                 tile_count, out_width, out_height, sampled>>
  /\ UNCHANGED notAtlas

(* video.rs:47-58 *)
AtlasPlan ==
  /\ atlas_pc = "open"
  /\ frame_step # 0
  /\ tile_index_start' = TileIndexStart(page_i)
  /\ tile_index_end' = TileIndexEnd(page_i, duration, frame_step)
  /\ tile_count' = TileCount(TileIndexStart(page_i),
                             TileIndexEnd(page_i, duration, frame_step))
  /\ atlas_pc' = "planned"
  /\ UNCHANGED <<page_i, frame_step, duration, out_width, out_height, sampled,
                 atlas_result>>
  /\ UNCHANGED notAtlas

(* video.rs:60-66: a blank tile-sized frame is encoded and returned. *)
AtlasBlank ==
  /\ atlas_pc = "planned"
  /\ tile_count = 0
  /\ out_width' = ATLAS_TILE_WIDTH
  /\ out_height' = ATLAS_TILE_HEIGHT
  /\ atlas_result' = "blank"
  /\ atlas_pc' = "done"
  /\ UNCHANGED <<page_i, frame_step, duration, tile_index_start, tile_index_end,
                 tile_count, sampled>>
  /\ UNCHANGED notAtlas

(* video.rs:68-81: the canvas is allocated. *)
AtlasCanvas ==
  /\ atlas_pc = "planned"
  /\ tile_count # 0
  /\ out_width' = OutWidth(tile_count)
  /\ out_height' = OutHeight(tile_count)
  /\ atlas_pc' = "sample"
  /\ UNCHANGED <<page_i, frame_step, duration, tile_index_start, tile_index_end,
                 tile_count, sampled, atlas_result>>
  /\ UNCHANGED notAtlas

(* video.rs:85-92: get_frame(.., tile_count, frame_step, ..)? returns an   *)
(* error, which is propagated.                                             *)
AtlasSampleErr ==
  /\ atlas_pc = "sample"
  /\ sampled' = TRUE
  /\ atlas_result' = "err"
  /\ atlas_pc' = "done"
  /\ UNCHANGED <<page_i, frame_step, duration, tile_index_start, tile_index_end,
                 tile_count, out_width, out_height>>
  /\ UNCHANGED notAtlas

(* video.rs:85-124: get_frame returns the frames, they are blitted and the *)
(* canvas is encoded.                                                      *)
AtlasSampleOk ==
  /\ atlas_pc = "sample"
  /\ sampled' = TRUE
  /\ atlas_result' = "image"
  /\ atlas_pc' = "done"
  /\ UNCHANGED <<page_i, frame_step, duration, tile_index_start, tile_index_end,
                 tile_count, out_width, out_height>>
  /\ UNCHANGED notAtlas

NextAtlas ==
  \/ AtlasOpenFail
  \/ AtlasPlanPanic
  \/ AtlasPlan
  \/ AtlasBlank
  \/ AtlasCanvas
  \/ AtlasSampleErr
  \/ AtlasSampleOk


----------------------------------------------------------------------------
(* get_scaler (video.rs:257-295), the frame size decode_frame returns      *)
(* (video.rs:312-334) and the tile offsets of get_video_atlas              *)
(* (video.rs:94-98).  Option<u32> is a sequence of length 0 or 1.          *)
MaxDecSize  == 8     \* decoder width and height in 1..MaxDecSize, or 80
MaxReqWidth == 4     \* thumbnail widths 0..MaxReqWidth (0: native width)

DecSizes  == (1..MaxDecSize) \cup {ATLAS_TILE_WIDTH}
Rotations == {0, 90, -90, 180}

Abs(x) == IF x < 0 THEN -x ELSE x

(* video.rs:188-192 *)
ResolveFrameWidth(req, dw) == IF req = 0 THEN dw ELSE req

(* The planner without the `frame_width != decoder.width()` test. *)
ScalerDstNoNativeTest(fw, dw, dh, rot, maxh) ==
  IF Abs(rot) = 90
  THEN LET w == (fw * dw) \div dh + 1
           h == fw
       IN  IF Len(maxh) = 1 /\ h > maxh[1]
           THEN <<maxh[1], (maxh[1] * h) \div w>>
           ELSE <<w, h>>
  ELSE LET w == fw
           h == (fw * dh) \div dw
       IN  IF Len(maxh) = 1 /\ h > maxh[1]
           THEN <<(maxh[1] * w) \div h, maxh[1]>>
           ELSE <<w, h>>

(* video.rs:263-284: <<scaler_dst_w, scaler_dst_h>> *)
ScalerDst(fw, dw, dh, rot, maxh) ==
  IF fw # dw /\ Abs(rot) = 90
  THEN LET w == (fw * dw) \div dh + 1
           h == fw
       IN  IF Len(maxh) = 1 /\ h > maxh[1]
           THEN <<maxh[1], (maxh[1] * h) \div w>>
           ELSE <<w, h>>
  ELSE LET w == fw
           h == (fw * dh) \div dw
       IN  IF Len(maxh) = 1 /\ h > maxh[1]
           THEN <<(maxh[1] * w) \div h, maxh[1]>>
           ELSE <<w, h>>

(* video.rs:312-315, 330-334: the size of the frame decode_frame returns *)
DecodedSize(sw, sh, present, rot) ==
  IF present /\ Abs(rot) = 90 THEN <<sh, sw>> ELSE <<sw, sh>>

ScaleInit ==
  /\ dec_width \in DecSizes
  /\ dec_height \in DecSizes
  /\ matrix_present \in BOOLEAN
  \* video.rs:194-201: without a display matrix the rotation is 0
  /\ rotation \in (IF matrix_present THEN Rotations ELSE {0})
  \* the two callers: get_video_atlas (video.rs:85-92) and
  \* get_video_thumbnail (video.rs:156-163)
  /\ \/ req_width = ATLAS_TILE_WIDTH /\ max_height = <<ATLAS_TILE_HEIGHT>>
     \/ req_width \in 0..MaxReqWidth /\ max_height = <<>>
  /\ scale_pc = "resolve"
  /\ frame_width = 0
  /\ scaler_dst_w = 0 /\ scaler_dst_h = 0
  /\ frm_width = 0 /\ frm_height = 0
  /\ blank_width_offset = 0 /\ blank_height_offset = 0
  /\ scale_result = "none"

scaleInputs == <<dec_width, dec_height, req_width, matrix_present, rotation,
                 max_height>>

(* video.rs:188-192 *)
ResolveWidth ==
  /\ scale_pc = "resolve"
  /\ frame_width' = ResolveFrameWidth(req_width, dec_width)
  /\ scale_pc' = "plan"
  /\ UNCHANGED <<scaleInputs, scaler_dst_w, scaler_dst_h, frm_width, frm_height,
                 blank_width_offset, blank_height_offset, scale_result>>
  /\ UNCHANGED notScale

(* video.rs:263-284 *)
GetScaler ==
  /\ scale_pc = "plan"
  /\ LET dst == ScalerDst(frame_width, dec_width, dec_height, rotation, max_height)
     IN  /\ scaler_dst_w' = dst[1]
         /\ scaler_dst_h' = dst[2]
  /\ scale_pc' = "scaler"
  /\ UNCHANGED <<scaleInputs, frame_width, frm_width, frm_height,
                 blank_width_offset, blank_height_offset, scale_result>>
  /\ UNCHANGED notScale

(* video.rs:286-294, 204-209: ScalingCtx::get refuses the planned size and *)
(* get_frame returns the error.                                            *)
ScalerErr ==
  /\ scale_pc = "scaler"
  /\ scale_result' = "err"
  /\ scale_pc' = "done"
  /\ UNCHANGED <<scaleInputs, frame_width, scaler_dst_w, scaler_dst_h, frm_width,
                 frm_height, blank_width_offset, blank_height_offset>>
  /\ UNCHANGED notScale

(* video.rs:303-344: the scaler runs and the frame is rotated if a display *)
(* matrix is present; a thumbnail request encodes the frame, an atlas      *)
(* request hands it to the compositor.                                     *)
DecodeFrame ==
  /\ scale_pc = "scaler"
  /\ LET size == DecodedSize(scaler_dst_w, scaler_dst_h, matrix_present, rotation)
     IN  /\ frm_width' = size[1]
         /\ frm_height' = size[2]
  /\ IF max_height = <<>>
     THEN scale_pc' = "done" /\ scale_result' = "thumbnail"
     ELSE scale_pc' = "tile" /\ scale_result' = "none"
  /\ UNCHANGED <<scaleInputs, frame_width, scaler_dst_w, scaler_dst_h,
                 blank_width_offset, blank_height_offset>>
  /\ UNCHANGED notScale

(* video.rs:94-98 *)
TileOffsets ==
  /\ scale_pc = "tile"
  /\ frm_width <= ATLAS_TILE_WIDTH
  /\ frm_height <= ATLAS_TILE_HEIGHT
  /\ blank_width_offset' = (ATLAS_TILE_WIDTH - frm_width) \div 2
  /\ blank_height_offset' = (ATLAS_TILE_HEIGHT - frm_height) \div 2
  /\ scale_result' = "tile"
  /\ scale_pc' = "done"
  /\ UNCHANGED <<scaleInputs, frame_width, scaler_dst_w, scaler_dst_h, frm_width,
                 frm_height>>
  /\ UNCHANGED notScale

(* video.rs:97-98 on a frame larger than a tile: the usize subtraction     *)
(* goes below zero.  With overflow checks that is a panic; without them    *)
(* the wrapped offset indexes far outside out_data (video.rs:119), which   *)
(* is a panic too.                                                         *)
TileOffsetsPanic ==
  /\ scale_pc = "tile"
  /\ frm_width > ATLAS_TILE_WIDTH \/ frm_height > ATLAS_TILE_HEIGHT
  /\ scale_result' = "panic"
  /\ scale_pc' = "done"
  /\ UNCHANGED <<scaleInputs, frame_width, scaler_dst_w, scaler_dst_h, frm_width,
                 frm_height, blank_width_offset, blank_height_offset>>
  /\ UNCHANGED notScale

NextScale ==
  \/ ResolveWidth
  \/ GetScaler
  \/ ScalerErr
  \/ DecodeFrame
  \/ TileOffsets
  \/ TileOffsetsPanic

ScaleIdle ==
  /\ dec_width = 1 /\ dec_height = 1 /\ req_width = 0
  /\ matrix_present = FALSE /\ rotation = 0 /\ max_height = <<>>
  /\ scale_pc = "idle" /\ frame_width = 0
  /\ scaler_dst_w = 0 /\ scaler_dst_h = 0 /\ frm_width = 0 /\ frm_height = 0
  /\ blank_width_offset = 0 /\ blank_height_offset = 0
  /\ scale_result = "none"

----------------------------------------------------------------------------
(* fix_img_data (video.rs:357-375).  `data` is the frame's plane 0 before  *)
(* the call, `fixed` the same plane after it.  The plane of a frame is     *)
(* stride * height bytes long, and stride >= width * 4.                    *)
MaxWidth  == 3     \* frame width in pixels, 1..MaxWidth
MaxHeight == 3     \* frame height in rows, 1..MaxHeight
MaxPad    == 3     \* padding bytes per row: stride = width * 4 + 0..MaxPad
MaxFill   == 1     \* byte patterns: data[i] = (fill + i) % 256

(* video.rs:365-369: the rows line..height-1, each cut to byte_width. *)
RECURSIVE PackRows(_, _, _, _, _)
PackRows(d, line, h, s, byte_width) ==
  IF line >= h THEN <<>>
  ELSE LET begin == line * s
           end   == begin + byte_width
       IN  SubSeq(d, begin + 1, end) \o PackRows(d, line + 1, h, s, byte_width)

(* The repair with rows taken at byte_width instead of stride. *)
FixImgDataNoStride(d, w, h, s) ==
  LET byte_width == w * PX_BYTES
      buffer     == PackRows(d, 0, h, byte_width, byte_width)
  IN  IF Len(buffer) < Len(d)
      THEN buffer \o SubSeq(d, Len(buffer) + 1, Len(d))
      ELSE buffer

(* video.rs:357-375 *)
FixImgData(d, w, h, s) ==
  LET byte_width == w * PX_BYTES
      buffer     == PackRows(d, 0, h, s, byte_width)
  IN  IF Len(buffer) < Len(d)
      THEN buffer \o SubSeq(d, Len(buffer) + 1, Len(d))
      ELSE buffer

FixInit ==
  /\ width \in 1..MaxWidth
  /\ height \in 1..MaxHeight
  /\ \E pad \in 0..MaxPad : stride = width * PX_BYTES + pad
  /\ \E fill \in 0..MaxFill :
       data = [i \in 1..(stride * height) |-> (fill + i) % 256]
  /\ fix_pc = "call"
  /\ fixed = <<>>

(* video.rs:357-375: clone_from_slice writes the buffer back into the      *)
(* plane; the two have the same length, as stride >= width * 4.            *)
FixImgDataCall ==
  /\ fix_pc = "call"
  /\ fixed' = FixImgData(data, width, height, stride)
  /\ fix_pc' = "done"
  /\ UNCHANGED <<width, height, stride, data>>
  /\ UNCHANGED notFix

NextFix == FixImgDataCall

FixIdle ==
  /\ width = 0 /\ height = 0 /\ stride = 0 /\ data = <<>>
  /\ fix_pc = "idle" /\ fixed = <<>>


----------------------------------------------------------------------------
(* get_frame (video.rs:167-246): the sampling loop.                        *)
(*                                                                         *)
(* The container is a finite sequence of packets, packets[k] being TRUE    *)
(* when packet k belongs to the selected video stream; packet k carries    *)
(* second k - 1.  The demuxer, the decoder and the scaler are the ffmpeg   *)
(* library: what a seek, a send_packet or a receive_frame answers is the   *)
(* library's choice, so each answer is chosen by the step that asks.       *)
(* A successful seek to second s leaves the read cursor on a packet at or  *)
(* before s, or at the end of the stream when s is past its last packet.   *)
MaxPackets    == 3   \* packets in the container, 0..MaxPackets
MaxFrameCount == 2   \* frame_count in 1..MaxFrameCount
MaxFps        == 2   \* fps (the step in seconds) in 1..MaxFps
MaxStart      == 1   \* SeekTime::Seconds(0..MaxStart)

(* Positions from the end of the longest stream on are the same position   *)
(* to the demuxer.  `seconds` is counted exactly below SecondsCap; the     *)
(* value SecondsCap stands for every u32 from SecondsCap to u32::MAX.      *)
(* From there `seconds += fps` (video.rs:237) either stays in that range   *)
(* or passes u32::MAX: a build with overflow checks panics, a build        *)
(* without them wraps to a second below fps.                               *)
SecondsCap == MaxPackets + 1

(* video.rs:237: the values `seconds += fps` can leave in `seconds`        *)
(* without a panic.                                                        *)
NextSeconds(sec, step, checks) ==
  IF sec < SecondsCap
  THEN {Min(sec + step, SecondsCap)}
  ELSE {SecondsCap} \cup (IF checks THEN {} ELSE 0..(step - 1))

FFMPEG_RETRY_ERR == "EAGAIN"
Errors       == {"EAGAIN", "InvalidData"}
SendAnswers  == {"ok"} \cup Errors
RecvAnswers  == {"ready"} \cup Errors

PacketStreams == UNION { [1..n -> BOOLEAN] : n \in 0..MaxPackets }
SeekTimes ==
  { [kind |-> "Seconds", value |-> v] : v \in 0..MaxStart }
    \cup { [kind |-> "Percentage", value |-> 0] }

(* video.rs:416-424: impl Into<u32> for SeekTime (a fraction below 1       *)
(* truncates to 0).                                                        *)
IntoU32(t) == IF t.kind = "Seconds" THEN t.value ELSE 0

(* Read cursors a successful seek to second s may leave. *)
SeekTargets(s) == { k \in 1..(Len(packets) + 1) : k - 1 <= s }

(* video.rs:377-389: seek; a fraction of the duration is any position. *)
FirstSeekTargets(t) ==
  IF t.kind = "Seconds" THEN SeekTargets(t.value) ELSE 1..(Len(packets) + 1)

(* The send_packet test without the retry exemption. *)
SendFailsAlways(res) == res # "ok"

(* video.rs:218-222: send_packet's answer makes get_frame return *)
SendFails(res) == res # "ok" /\ res # FFMPEG_RETRY_ERR

(* video.rs:229-233: decode_frame's error makes get_frame return *)
RecvFails(res) == res # "ready" /\ res # FFMPEG_RETRY_ERR

LoopInit ==
  /\ overflow_checks \in BOOLEAN
  /\ packets \in PacketStreams
  /\ has_video \in BOOLEAN
  /\ ~has_video => \A k \in 1..Len(packets) : ~packets[k]
  /\ frame_time \in SeekTimes
  /\ frame_count \in 1..MaxFrameCount
  /\ fps \in 1..MaxFps
  /\ pc = "start"
  /\ cursor = 1
  /\ seconds = 0
  /\ frames = <<>>
  /\ send_res = "none" /\ recv_res = "none"
  /\ ran_out = FALSE
  /\ result = "none"

loopInputs == <<overflow_checks, has_video, packets, frame_time, frame_count, fps>>

(* Return Err(kind) from get_frame. *)
ReturnErr(kind) ==
  /\ pc' = "done"
  /\ result' = kind

(* video.rs:175: the first seek fails. *)
StartSeekErr ==
  /\ pc = "start"
  /\ ReturnErr("err_seek")
  /\ UNCHANGED <<loopInputs, cursor, seconds, frames, send_res, recv_res, ran_out>>
  /\ UNCHANGED notLoop

(* video.rs:177-180: no video stream. *)
StartNoStream ==
  /\ pc = "start"
  /\ ~has_video
  /\ ReturnErr("err_stream")
  /\ \E k \in FirstSeekTargets(frame_time) : cursor' = k
  /\ UNCHANGED <<loopInputs, seconds, frames, send_res, recv_res, ran_out>>
  /\ UNCHANGED notLoop

(* video.rs:184-186, 204-209: the decoder or the scaler cannot be made. *)
StartSetupErr ==
  /\ pc = "start"
  /\ has_video
  /\ ReturnErr("err_setup")
  /\ \E k \in FirstSeekTargets(frame_time) : cursor' = k
  /\ UNCHANGED <<loopInputs, seconds, frames, send_res, recv_res, ran_out>>
  /\ UNCHANGED notLoop

(* video.rs:175-211 *)
StartOk ==
  /\ pc = "start"
  /\ has_video
  /\ \E k \in FirstSeekTargets(frame_time) : cursor' = k
  /\ seconds' = IntoU32(frame_time)
  /\ pc' = "while"
  /\ UNCHANGED <<loopInputs, frames, send_res, recv_res, ran_out, result>>
  /\ UNCHANGED notLoop

(* video.rs:213: while frames.len() < frame_count *)
LoopTest ==
  /\ pc = "while"
  /\ pc' = IF Len(frames) < frame_count THEN "for" ELSE "eof"
  /\ UNCHANGED <<loopInputs, cursor, seconds, frames, send_res, recv_res, ran_out,
                 result>>
  /\ UNCHANGED notLoop

(* video.rs:214: the packet iterator is at the end of the stream. *)
PacketsEnd ==
  /\ pc = "for"
  /\ cursor > Len(packets)
  /\ pc' = "advance"
  /\ ran_out' = TRUE
  /\ send_res' = "none" /\ recv_res' = "none"
  /\ UNCHANGED <<loopInputs, cursor, seconds, frames, result>>
  /\ UNCHANGED notLoop

(* video.rs:214-216: a packet of another stream is skipped. *)
SkipPacket ==
  /\ pc = "for"
  /\ cursor <= Len(packets)
  /\ ~packets[cursor]
  /\ cursor' = cursor + 1
  /\ send_res' = "none" /\ recv_res' = "none"
  /\ UNCHANGED <<loopInputs, pc, seconds, frames, ran_out, result>>
  /\ UNCHANGED notLoop

(* video.rs:218-222: send_packet fails for good. *)
SendFatal ==
  /\ pc = "for"
  /\ cursor <= Len(packets)
  /\ packets[cursor]
  /\ \E s \in SendAnswers :
       /\ SendFails(s)
       /\ send_res' = s
  /\ recv_res' = "none"
  /\ cursor' = cursor + 1
  /\ ReturnErr("err_send")
  /\ UNCHANGED <<loopInputs, seconds, frames, ran_out>>
  /\ UNCHANGED notLoop

(* video.rs:218-234: the packet is sent (or the decoder answers EAGAIN),   *)
(* then a frame is received.                                               *)
SendRecv ==
  /\ pc = "for"
  /\ cursor <= Len(packets)
  /\ packets[cursor]
  /\ \E s \in SendAnswers, r \in RecvAnswers :
       /\ ~SendFails(s)
       /\ send_res' = s
       /\ recv_res' = r
       /\ \/ /\ r = "ready"                       \* video.rs:225-228
             /\ frames' = Append(frames, cursor)
             /\ pc' = "advance"
             /\ UNCHANGED result
          \/ /\ r # "ready"                       \* video.rs:229-233
             /\ RecvFails(r)
             /\ ReturnErr("err_recv")
             /\ UNCHANGED frames
          \/ /\ r # "ready"
             /\ ~RecvFails(r)
             /\ UNCHANGED <<pc, frames, result>>
  /\ cursor' = cursor + 1
  /\ UNCHANGED <<loopInputs, seconds, ran_out>>
  /\ UNCHANGED notLoop

(* video.rs:237: seconds += fps passes u32::MAX in a build with overflow    *)
(* checks: the thread panics and get_frame never returns.                  *)
AdvancePanic ==
  /\ pc = "advance"
  /\ seconds = SecondsCap
  /\ overflow_checks
  /\ pc' = "panicked"
  /\ result' = "panic"
  /\ UNCHANGED <<loopInputs, cursor, seconds, frames, send_res, recv_res, ran_out>>
  /\ UNCHANGED notLoop

(* video.rs:237-238: seconds += fps, and the seek fails. *)
AdvanceSeekErr ==
  /\ pc = "advance"
  /\ \E s \in NextSeconds(seconds, fps, overflow_checks) : seconds' = s
  /\ ReturnErr("err_seek")
  /\ UNCHANGED <<loopInputs, cursor, frames, send_res, recv_res, ran_out>>
  /\ UNCHANGED notLoop

(* video.rs:237-238: seconds += fps, and the seek succeeds. *)
AdvanceSeekOk ==
  /\ pc = "advance"
  /\ \E s \in NextSeconds(seconds, fps, overflow_checks) :
       /\ seconds' = s
       /\ \E k \in SeekTargets(s) : cursor' = k
  /\ pc' = "while"
  /\ UNCHANGED <<loopInputs, frames, send_res, recv_res, ran_out, result>>
  /\ UNCHANGED notLoop

(* video.rs:242: send_eof fails. *)
FlushErr ==
  /\ pc = "eof"
  /\ ReturnErr("err_eof")
  /\ UNCHANGED <<loopInputs, cursor, seconds, frames, send_res, recv_res, ran_out>>
  /\ UNCHANGED notLoop

(* video.rs:242-245: the decoder is drained and the frames are returned. *)
FlushOk ==
  /\ pc = "eof"
  /\ pc' = "done"
  /\ result' = "ok"
  /\ UNCHANGED <<loopInputs, cursor, seconds, frames, send_res, recv_res, ran_out>>
  /\ UNCHANGED notLoop

Next ==
  \/ StartSeekErr
  \/ StartNoStream
  \/ StartSetupErr
  \/ StartOk
  \/ LoopTest
  \/ PacketsEnd
  \/ SkipPacket
  \/ SendFatal
  \/ SendRecv
  \/ AdvancePanic
  \/ AdvanceSeekErr
  \/ AdvanceSeekOk
  \/ FlushErr
  \/ FlushOk

LoopIdle ==
  /\ overflow_checks = FALSE /\ has_video = FALSE /\ packets = <<>>
  /\ frame_time = [kind |-> "Seconds", value |-> 0]
  /\ frame_count = 1 /\ fps = 1
  /\ pc = "idle" /\ cursor = 1 /\ seconds = 0 /\ frames = <<>>
  /\ send_res = "none" /\ recv_res = "none" /\ ran_out = FALSE
  /\ result = "none"

----------------------------------------------------------------------------
(* parse_display_matrix (math.rs:86-116), called on the bytes of the       *)
(* stream's display matrix side data (video.rs:248-255).                   *)
(*                                                                         *)
(* An i32 fits a TLC integer, so the cells are modelled at full width.     *)
(* i32::from_ne_bytes reads the bytes in the order of the build target;    *)
(* the targets of this program (x86-64, aarch64) are little-endian.        *)

MaxBytesLen == 40   \* the side data holds 0..MaxBytesLen bytes

(* The four bytes of an i32, least significant first. *)
I32Bytes(x) ==
  << x % 256, (x \div 256) % 256, (x \div 65536) % 256, (x \div 2^24) % 256 >>

(* math.rs:103: i32::from_ne_bytes *)
FromNeBytes(chunk) ==
  chunk[1] + 256 * chunk[2] + 65536 * chunk[3]
    + 2^24 * (IF chunk[4] >= 128 THEN chunk[4] - 256 ELSE chunk[4])

(* Exponent e with 2^(23+e) <= m < 2^(24+e), for m >= 2^24: the number of  *)
(* low bits an f32 cannot hold.                                            *)
RECURSIVE LostBits(_)
LostBits(m) == IF m < 2^24 THEN 0 ELSE 1 + LostBits(m \div 2)

(* math.rs:118-120: ((x as f32) / (1 << n) as f32) as i32, for n in        *)
(* {16, 30}.  `x as f32` rounds |x| to 24 significant bits, ties to even;  *)
(* the division by a power of two is exact; `as i32` truncates toward 0.   *)
(* The rounded magnitude is k * 2^e; it is divided in that form because    *)
(* k * 2^e can be 2^31.                                                    *)
to_fixed_point(x, n) ==
  LET neg == x < 0
      m   == IF neg THEN -(x + 1) ELSE x      \* |x| - 1 when x < 0
      big == neg /\ m = 2^30 + (2^30 - 1)     \* x = i32::MIN
      mag == IF neg /\ ~big THEN m + 1 ELSE m \* |x|, or |x| - 1 for i32::MIN
      e   == LostBits(mag)
      q   == 2^e
      r   == mag % q
      k0  == mag \div q
      k   == IF 2 * r < q THEN k0
             ELSE IF 2 * r > q THEN k0 + 1
             ELSE IF k0 % 2 = 0 THEN k0 ELSE k0 + 1
      t   == IF big THEN 2^(31 - n) ELSE k \div 2^(n - e)
  IN  IF neg THEN -t ELSE t

(* math.rs:90-94: bytes[chunk_range] is a slice index; a range that ends   *)
(* past the slice is a panic of the index operator.                        *)
ChunkInRange(b, i) == i * 4 + 4 <= Len(b)
Chunk(b, i) == SubSeq(b, i * 4 + 1, i * 4 + 4)

(* math.rs:92-94: try_into of a slice to [u8; 4] fails when the slice is   *)
(* not 4 bytes long.                                                       *)
ConversionFails(chunk) == Len(chunk) # 4

(* math.rs:103-108: the cell of index i *)
Cell(b, i) ==
  IF i = 2 \/ i = 5 \/ i = 8
  THEN to_fixed_point(FromNeBytes(Chunk(b, i)), 30)
  ELSE to_fixed_point(FromNeBytes(Chunk(b, i)), 16)

(* Display matrices as a container stores them (16.16 and 2.30 fixed       *)
(* point): identity, a quarter turn, all zero, and one with cells that     *)
(* need more than 24 bits.                                                 *)
StoredMatrices ==
  { << 65536, 0, 0,   0, 65536, 0,   0, 0, 2^30 >>,
    << 0, 65536, 0,   -65536, 0, 0,  0, 0, 2^30 >>,
    << 0, 0, 0,   0, 0, 0,   0, 0, 0 >>,
    << 2^24 + 1, -(2^24 + 3), 2^30 - 1,   -1, 65535, -(2^30),
       2^30 + (2^30 - 1), -65537, 65536 >> }

(* The bytes of a stored matrix, followed by zero bytes. *)
Encode(m) ==
  [ j \in 1..36 |-> I32Bytes(m[((j - 1) \div 4) + 1])[((j - 1) % 4) + 1] ]

ParseInit ==
  /\ \E m \in StoredMatrices, n \in 0..MaxBytesLen :
       bytes = [ j \in 1..n |-> IF j <= 36 THEN Encode(m)[j] ELSE 0 ]
  /\ parse_pc = "call"
  /\ matrix = <<>>
  /\ parse_result = "none"
  /\ failed_range = <<>>

(* math.rs:89-94: the loop reaches a cell whose range ends past the bytes. *)
ParsePanic ==
  /\ parse_pc = "call"
  /\ \E i \in 0..8 :
       /\ ~ChunkInRange(bytes, i)
       /\ \A j \in 0..(i - 1) :
            ChunkInRange(bytes, j) /\ ~ConversionFails(Chunk(bytes, j))
       /\ failed_range' = << i * 4, i * 4 + 4 >>
  /\ parse_result' = "panic"
  /\ parse_pc' = "done"
  /\ UNCHANGED <<bytes, matrix>>
  /\ UNCHANGED notParse

(* math.rs:89-115: every cell is sliced and converted.  The Err arm        *)
(* (math.rs:110-112) needs a chunk that was sliced and is not 4 bytes      *)
(* long; Chunk(b, i) is 4 bytes long whenever it is in range, so no input  *)
(* takes that arm.                                                         *)
ParseOk ==
  /\ parse_pc = "call"
  /\ \A i \in 0..8 :
       ChunkInRange(bytes, i) /\ ~ConversionFails(Chunk(bytes, i))
  /\ matrix' = [ i \in 1..9 |-> Cell(bytes, i - 1) ]
  /\ parse_result' = "ok"
  /\ parse_pc' = "done"
  /\ UNCHANGED <<bytes, failed_range>>
  /\ UNCHANGED notParse

NextParse ==
  \/ ParsePanic
  \/ ParseOk

ParseIdle ==
  /\ bytes = <<>> /\ parse_pc = "idle" /\ matrix = <<>>
  /\ parse_result = "none" /\ failed_range = <<>>

----------------------------------------------------------------------------
(* rotate_frame (math.rs:51-81), as decode_frame calls it                  *)
(* (video.rs:313-340).                                                     *)
(*                                                                         *)
(* src_len and dst_len are the lengths of plane 0 of the two frames:       *)
(* linesize * height, the linesize being the row of pixels plus the        *)
(* padding the allocator adds (whole pixels: it aligns to 16 bytes or      *)
(* more).  The cells of the matrix and the sizes are small, so the i32     *)
(* products and sums of math.rs:69-72 are exact.                           *)

MaxRotSize == 2   \* source width and height in 1..MaxRotSize
MaxRotPad  == 1   \* pixels of row padding in 0..MaxRotPad
MaxCell    == 1   \* cells a b c d w in -MaxCell..MaxCell, u v in 0..MaxCell

(* Rust's `/` on i32: the quotient truncated toward zero (d # 0). *)
TruncDiv(n, d) ==
  LET q == Abs(n) \div Abs(d)
  IN  IF (n < 0) = (d < 0) THEN q ELSE -q

(* math.rs:62 *)
PxArea(len) == len \div PX_BYTES

(* math.rs:64-67 *)
SrcP(i, sw) == i % sw
SrcQ(i, sw) == i \div sw

(* math.rs:56-60 and 69: transform is [a, b, u, c, d, v, x, y, w] *)
HomogeneousZ(t, p, q) == t[3] * p + t[6] * q + t[9]

(* math.rs:70-72: the linear destination index as an i32 (z # 0) *)
DstIndex(t, p, q, dw) ==
  LET z  == HomogeneousZ(t, p, q)
      dp == TruncDiv(t[1] * p + t[4] * q + t[7], z)
      dq == TruncDiv(t[2] * p + t[5] * q + t[8], z)
  IN  dp + dw * dq

(* math.rs:72-75: `as usize` turns a negative index into one of at least   *)
(* 2^63, for which usize::MAX / di < PX_BYTES: no_overflow is false.  A    *)
(* non-negative i32 index passes no_overflow and is tested against the     *)
(* length of the destination plane.                                        *)
PixelCopied(di, dlen) == di >= 0 /\ di * PX_BYTES < dlen

(* video.rs:313-327: the destination has the size of the source, or the    *)
(* transposed size for a quarter turn; the cells x and y that are not 0    *)
(* are replaced by dst_width - 1 and dst_height - 1.                       *)
RotateInit ==
  /\ \E sw \in 1..MaxRotSize, sh \in 1..MaxRotSize, pad \in 0..MaxRotPad,
        turned \in BOOLEAN :
       LET dw == IF turned THEN sh ELSE sw
           dh == IF turned THEN sw ELSE sh
       IN  /\ src_width = sw
           /\ src_len = (sw + pad) * PX_BYTES * sh
           /\ dst_width = dw
           /\ dst_len = (dw + pad) * PX_BYTES * dh
           /\ \E a \in -MaxCell..MaxCell, b \in -MaxCell..MaxCell,
                 c \in -MaxCell..MaxCell, d \in -MaxCell..MaxCell,
                 u \in 0..MaxCell, v \in 0..MaxCell,
                 x \in {0, dw - 1}, y \in {0, dh - 1},
                 w \in -MaxCell..MaxCell :
                transform = << a, b, u, c, d, v, x, y, w >>
  /\ rot_pc = "call"
  /\ dst_writes = {}
  /\ rot_result = "none"

(* math.rs:63-71: the loop reaches a pixel whose z is 0; the i32 division  *)
(* at math.rs:70 panics.                                                   *)
RotateFramePanic ==
  /\ rot_pc = "call"
  /\ \E i \in 0..(PxArea(src_len) - 1) :
       HomogeneousZ(transform, SrcP(i, src_width), SrcQ(i, src_width)) = 0
  /\ rot_result' = "panic"
  /\ rot_pc' = "done"
  /\ UNCHANGED <<src_width, src_len, dst_width, dst_len, transform, dst_writes>>
  /\ UNCHANGED notRot

(* math.rs:63-80: no pixel has z = 0; dst_writes holds, for every pixel    *)
(* that is copied, the pair of its destination index and its source index. *)
RotateFrame ==
  /\ rot_pc = "call"
  /\ \A i \in 0..(PxArea(src_len) - 1) :
       HomogeneousZ(transform, SrcP(i, src_width), SrcQ(i, src_width)) # 0
  /\ dst_writes' =
       { << DstIndex(transform, SrcP(i, src_width), SrcQ(i, src_width),
                     dst_width), i >> :
           i \in { j \in 0..(PxArea(src_len) - 1) :
                     PixelCopied(DstIndex(transform, SrcP(j, src_width),
                                          SrcQ(j, src_width), dst_width),
                                 dst_len) } }
  /\ rot_result' = "ok"
  /\ rot_pc' = "done"
  /\ UNCHANGED <<src_width, src_len, dst_width, dst_len, transform>>
  /\ UNCHANGED notRot

NextRotate ==
  \/ RotateFramePanic
  \/ RotateFrame

RotIdle ==
  /\ src_width = 0 /\ src_len = 0 /\ dst_width = 0 /\ dst_len = 0
  /\ transform = <<>> /\ rot_pc = "idle" /\ dst_writes = {}
  /\ rot_result = "none"

MathIdle == ParseIdle /\ RotIdle

----------------------------------------------------------------------------
(* get_video_atlas, the compositing loop (video.rs:93-123), entered when   *)
(* get_frame has returned its frames (video.rs:85-92).                     *)
(*                                                                         *)
(* get_frame returns exactly frame_count = tile_count frames on success    *)
(* (the loop of video.rs:213 runs until frames.len() = frame_count), all   *)
(* produced by one scaler, so of one size: tile_width x tile_height.       *)
(* tile_count is at most MAX_ATLAS_TILES (video.rs:47-58).  The canvas is  *)
(* out_width x out_height pixels of PX_BYTES bytes, and video.rs:115       *)
(* addresses it as rows of out_width pixels.                               *)

MaxInset      == 2    \* a frame is up to MaxInset pixels short of the tile
MaxShortPage  == 11   \* pages of 1..MaxShortPage tiles, and the two fullest

(* The sizes of the frames: the tile filled in one direction and up to     *)
(* MaxInset short in the other, and frames one pixel wide or high.         *)
FrameSizes ==
  { << ATLAS_TILE_WIDTH - d, ATLAS_TILE_HEIGHT >> : d \in 0..MaxInset }
    \cup { << ATLAS_TILE_WIDTH, ATLAS_TILE_HEIGHT - d >> : d \in 0..MaxInset }
    \cup { << 1, 1 >>, << 1, ATLAS_TILE_HEIGHT >>, << ATLAS_TILE_WIDTH, 1 >> }

(* The tile counts of a page: a short page, which decides the width and    *)
(* the rows of the canvas, the full page and the one a tile short of it.   *)
TileCounts ==
  (1..Min(MaxShortPage, MAX_ATLAS_TILES))
    \cup { MAX_ATLAS_TILES - 1, MAX_ATLAS_TILES }

(* video.rs:97-98 (frame no larger than the tile) *)
BlankOffset(tile, frame) == (tile - frame) \div 2

(* video.rs:100 *)
TileX(k) == k % MAX_ATLAS_TILE_WIDTH

(* The row of a tile taken as the remainder instead of the quotient. *)
TileYWrapped(k) == k % MAX_ATLAS_TILE_HEIGHT

(* video.rs:101 *)
TileY(k) == k \div MAX_ATLAS_TILE_HEIGHT

(* video.rs:102-115: the byte offset in the canvas of pixel i of the frame *)
(* at position k.                                                          *)
BlitIndex(k, i, fw, fh, ow) ==
  LET tile_x_offset == TileX(k) * ATLAS_TILE_WIDTH + BlankOffset(ATLAS_TILE_WIDTH, fw)
      tile_y_offset == TileY(k) * ATLAS_TILE_HEIGHT + BlankOffset(ATLAS_TILE_HEIGHT, fh)
      x  == i % fw
      y  == i \div fw
      dx == tile_x_offset + x
      dy == tile_y_offset + y
  IN  (dx + ow * dy) * 4

(* video.rs:68-92: the canvas is allocated and get_frame has returned      *)
(* tile_count frames.                                                      *)
BlitInit ==
  /\ page_i = 0 /\ frame_step = 1 /\ duration = 0
  /\ tile_count \in TileCounts
  /\ tile_index_start = 0 /\ tile_index_end = tile_count
  /\ out_width = OutWidth(tile_count)
  /\ out_height = OutHeight(tile_count)
  /\ sampled = TRUE
  /\ atlas_pc = "blit"
  /\ atlas_result = "none"
  /\ thumb_pos = 0
  /\ \E size \in FrameSizes : tile_width = size[1] /\ tile_height = size[2]
  /\ blit_writes = <<>>

(* video.rs:93-123, one turn of `for frame in frames`: every pixel of the  *)
(* frame is written; blit_writes[i + 1] is the canvas byte offset at which *)
(* the 4 bytes of pixel i were stored.  The index operator of              *)
(* video.rs:118-120 panics on an offset outside the canvas.                *)
BlitFrame ==
  /\ atlas_pc = "blit"
  /\ thumb_pos < tile_count
  /\ LET writes == [ n \in 1..(tile_width * tile_height) |->
                       BlitIndex(thumb_pos, n - 1, tile_width, tile_height,
                                 out_width) ]
     IN  IF \A n \in 1..(tile_width * tile_height) :
              writes[n] + 3 < out_width * out_height * 4
         THEN /\ blit_writes' = writes
              /\ thumb_pos' = thumb_pos + 1
              /\ UNCHANGED <<atlas_pc, atlas_result>>
         ELSE /\ atlas_pc' = "done"
              /\ atlas_result' = "panic"
              /\ UNCHANGED <<blit_writes, thumb_pos>>
  /\ UNCHANGED <<page_i, frame_step, duration, tile_index_start, tile_index_end,
                 tile_count, out_width, out_height, sampled>>
  /\ UNCHANGED <<tile_width, tile_height>>
  /\ UNCHANGED notBlit

(* video.rs:124: the frames are exhausted, the canvas is encoded. *)
BlitDone ==
  /\ atlas_pc = "blit"
  /\ thumb_pos = tile_count
  /\ atlas_pc' = "done"
  /\ atlas_result' = "image"
  /\ UNCHANGED <<page_i, frame_step, duration, tile_index_start, tile_index_end,
                 tile_count, out_width, out_height, sampled>>
  /\ UNCHANGED blitVars
  /\ UNCHANGED notBlit

NextBlit ==
  \/ BlitFrame
  \/ BlitDone

BlitIdle ==
  /\ thumb_pos = 0 /\ tile_width = 0 /\ tile_height = 0 /\ blit_writes = <<>>

----------------------------------------------------------------------------
(* Specifications.                                                         *)

(* The sampling loop. *)
Init == LoopInit /\ AtlasIdle /\ ScaleIdle /\ FixIdle /\ MathIdle /\ BlitIdle
Spec == Init /\ [][Next]_vars

(* `seconds += fps` passes u32::MAX: the step of the sampling loop that     *)
(* leaves the range SecondsCap stands for.                                 *)
SecondsOverflow ==
  /\ pc = "advance"
  /\ seconds = SecondsCap
  /\ AdvancePanic \/ ((AdvanceSeekErr \/ AdvanceSeekOk) /\ seconds' < SecondsCap)

(* The sampling loop is sequential code: a step that can be taken is       *)
(* taken.  With fps >= 1 a counter that keeps being advanced does pass     *)
(* u32::MAX, so the loop cannot stay below the overflow for ever.          *)
FairSpec == Spec /\ WF_vars(Next) /\ SF_vars(SecondsOverflow)

(* get_video_atlas. *)
InitAtlas == AtlasInit /\ LoopIdle /\ ScaleIdle /\ FixIdle /\ MathIdle /\ BlitIdle
SpecAtlas == InitAtlas /\ [][NextAtlas]_vars

(* get_scaler, decode_frame and the tile offsets. *)
InitScale == ScaleInit /\ LoopIdle /\ AtlasIdle /\ FixIdle /\ MathIdle /\ BlitIdle
SpecScale == InitScale /\ [][NextScale]_vars

(* fix_img_data. *)
InitFix == FixInit /\ LoopIdle /\ AtlasIdle /\ ScaleIdle /\ MathIdle /\ BlitIdle
SpecFix == InitFix /\ [][NextFix]_vars

(* parse_display_matrix. *)
InitParse == ParseInit /\ RotIdle /\ LoopIdle /\ AtlasIdle /\ ScaleIdle /\ FixIdle /\ BlitIdle
SpecParse == InitParse /\ [][NextParse]_vars

(* rotate_frame. *)
InitRotate == RotateInit /\ ParseIdle /\ LoopIdle /\ AtlasIdle /\ ScaleIdle /\ FixIdle /\ BlitIdle
SpecRotate == InitRotate /\ [][NextRotate]_vars

(* The compositing loop of get_video_atlas. *)
InitBlit == BlitInit /\ LoopIdle /\ ScaleIdle /\ FixIdle /\ MathIdle
SpecBlit == InitBlit /\ [][NextBlit]_vars


----------------------------------------------------------------------------
(* Claims about the sampling loop (Spec, FairSpec).                        *)

(* C1: when the packets run out before frame_count frames are collected,   *)
(* the loop stops and returns the frames collected so far as a successful  *)
(* result: every step taken after the packet iterator has ended is the     *)
(* return of Ok(frames), with the frames as they were.                     *)
C1_RunOutReturnsFrames ==
  [][ ran_out => (pc' = "done" /\ result' = "ok" /\ frames' = frames) ]_vars

(* C2: the sampling loop always terminates: get_frame eventually returns   *)
(* (frames or an error).                                                   *)
C2_LoopTerminates == <>(pc = "done" /\ result # "panic")

(* C3: a "need more input" answer (EAGAIN from send_packet or from         *)
(* receive_frame) never makes get_frame return an error: after EAGAIN from *)
(* send_packet a frame is still received, after EAGAIN from receive_frame  *)
(* the loop stays in the packet iteration with no result, and the errors   *)
(* of sending and receiving come only from answers that are neither a      *)
(* success nor EAGAIN.                                                     *)
C3_RetryIsNotAnError ==
  /\ result = "err_send" => send_res \notin {"ok", "none", "EAGAIN"}
  /\ result = "err_recv" => recv_res \notin {"ready", "none", "EAGAIN"}
  /\ send_res = "EAGAIN" => recv_res # "none"
  /\ recv_res = "EAGAIN" => pc = "for" /\ result = "none"
  /\ (send_res = "EAGAIN" /\ recv_res = "ready") =>
        (Len(frames) >= 1 /\ result \notin {"err_send", "err_recv"})

(* C3 witness: both calls answered EAGAIN, the loop goes on and the next   *)
(* packet of the video stream is there to be sent.                         *)
C3_Witness ==
  /\ send_res = "EAGAIN" /\ recv_res = "EAGAIN"
  /\ pc = "for" /\ result = "none"
  /\ cursor <= Len(packets) /\ packets[cursor]

----------------------------------------------------------------------------
(* Claims about get_video_atlas (SpecAtlas).                               *)

(* The tile range has been computed / the canvas has been allocated. *)
AtlasPlanned   == atlas_pc \in {"planned", "sample"} \/ atlas_result \in {"blank", "image"} \/ sampled
AtlasAllocated == atlas_pc = "sample" \/ sampled

(* Sample times 0, step, 2 step, .. that lie before the end of a container *)
(* of d milliseconds.                                                      *)
EligibleTiles(d, step) == (d + 1000 * step - 1) \div (1000 * step)

CeilDiv(a, b) == (a + b - 1) \div b

(* C4: get_video_atlas returns an image or a structured error for every    *)
(* page and step (step 0 included); the tile-range computation never       *)
(* faults.                                                                 *)
C4_AtlasNeverFaults == atlas_result # "panic"

(* C5: for every page and step >= 1, when page * 100 is at or beyond the   *)
(* number of step-spaced sample times that fit in the duration, tile_count *)
(* is 0, the sampling loop is not invoked and the result is the blank      *)
(* 80x45 canvas.                                                           *)
C5_NoEligibleTileIsBlank ==
  (AtlasPlanned /\ frame_step >= 1
     /\ page_i * MAX_ATLAS_TILES >= EligibleTiles(duration, frame_step))
  => /\ tile_count = 0
     /\ ~sampled
     /\ atlas_pc = "done" =>
          (atlas_result = "blank" /\ out_width = ATLAS_TILE_WIDTH
                                  /\ out_height = ATLAS_TILE_HEIGHT)

(* C6: for tile_count in 1..100 the canvas is 80 * min(tile_count, 10)     *)
(* wide and 45 * min(ceil(tile_count / 10), 10) tall.                      *)
C6_CanvasShape ==
  (AtlasAllocated /\ tile_count \in 1..MAX_ATLAS_TILES)
  => /\ out_width = ATLAS_TILE_WIDTH * Min(tile_count, MAX_ATLAS_TILE_WIDTH)
     /\ out_height = ATLAS_TILE_HEIGHT
                       * Min(CeilDiv(tile_count, MAX_ATLAS_TILE_WIDTH),
                             MAX_ATLAS_TILE_HEIGHT)

(* C7: for a container of D whole seconds, 1 <= D <= 100, page 0 and step  *)
(* 1 sample exactly D tiles on a canvas 80 * min(D, 10) wide and           *)
(* 45 * ceil(D / 10) tall.                                                 *)
C7_OneTilePerSecond ==
  \A D \in 1..MAX_ATLAS_TILES :
    (AtlasPlanned /\ page_i = 0 /\ frame_step = 1 /\ duration = D * 1000)
    => /\ tile_count = D
       /\ AtlasAllocated =>
            /\ out_width = ATLAS_TILE_WIDTH * Min(D, MAX_ATLAS_TILE_WIDTH)
            /\ out_height = ATLAS_TILE_HEIGHT * CeilDiv(D, MAX_ATLAS_TILE_WIDTH)

----------------------------------------------------------------------------
(* Claims about the scale planner and the frame size (SpecScale).          *)

ScalePlanned == scale_pc \in {"scaler", "tile", "done"}

C9_FrameFitsTile ==
  (scale_pc = "tile" \/ scale_result \in {"tile", "panic"})
  => /\ frm_width <= ATLAS_TILE_WIDTH
     /\ frm_height <= ATLAS_TILE_HEIGHT
     /\ scale_result # "panic"

----------------------------------------------------------------------------
(* Claims about the stride repair (SpecFix).                               *)

(* Row r of the repaired plane is the first width * 4 bytes of row r of    *)
(* the plane before the repair.                                            *)
RowsPacked ==
  \A r \in 0..(height - 1), j \in 1..(width * PX_BYTES) :
    fixed[r * width * PX_BYTES + j] = data[r * stride + j]

(* C10, as stated: the repaired buffer has length exactly                  *)
(* width * 4 * height and holds the rows packed.                           *)
C10_RepairedLengthAsStated ==
  fix_pc = "done" =>
    (Len(fixed) = width * PX_BYTES * height /\ RowsPacked)

(* C10, amended: the repaired buffer keeps the length of the plane it      *)
(* repairs; its first width * 4 * height bytes are the rows packed, free   *)
(* of padding, and every byte after them is the byte the plane held at     *)
(* that position before the repair.                                        *)
C10_RepairedPlane ==
  fix_pc = "done" =>
    /\ Len(fixed) = Len(data)
    /\ Len(fixed) >= width * PX_BYTES * height
    /\ RowsPacked
    /\ \A i \in (width * PX_BYTES * height + 1)..Len(data) : fixed[i] = data[i]

(* C10 witness: a repaired plane of two padded rows. *)
C10_Witness ==
  /\ fix_pc = "done"
  /\ width >= 1 /\ height = 2 /\ stride > width * PX_BYTES
  /\ Len(fixed) > width * PX_BYTES * height


----------------------------------------------------------------------------
(* Claims about parse_display_matrix (SpecParse).                          *)

(* C12: parse_display_matrix never faults; for an input from which some    *)
(* 4-byte cell cannot be sliced -- every input shorter than 36 bytes, the  *)
(* empty one included -- it returns a conversion error naming the failed   *)
(* byte range i*4 .. i*4+4; for an input of at least 36 bytes it returns   *)
(* Ok with 9 cells.                                                        *)
C12_ShortInputIsConversionError ==
  parse_pc = "done" =>
    /\ parse_result # "panic"
    /\ Len(bytes) < 36 =>
         /\ parse_result = "err"
         /\ \E i \in 0..8 : failed_range = << i * 4, i * 4 + 4 >>
    /\ Len(bytes) >= 36 => (parse_result = "ok" /\ Len(matrix) = 9)

----------------------------------------------------------------------------
(* Claims about rotate_frame (SpecRotate).                                 *)

(* C11: rotate_frame always completes without a fault, whatever the matrix *)
(* (one whose z is 0 for some source pixel included), and every source     *)
(* pixel is either skipped or copied to a linear index di with             *)
(* 0 <= di * 4 and di * 4 + 3 < the length of the destination plane.       *)
C11_RotateNeverFaults ==
  rot_pc = "done" =>
    /\ rot_result = "ok"
    /\ \A wr \in dst_writes :
         0 <= wr[1] * PX_BYTES /\ wr[1] * PX_BYTES + 3 < dst_len

----------------------------------------------------------------------------
(* Claims about the compositing loop of get_video_atlas (SpecBlit).        *)

(* The canvas position (column, row) of a byte offset, the canvas being    *)
(* rows of out_width pixels of 4 bytes.                                    *)
CanvasX(di) == (di \div 4) % out_width
CanvasY(di) == (di \div 4) \div out_width

(* C13: for the frame at sequence position k (0 <= k < tile_count <= 100)  *)
(* of size (w, h) <= (80, 45), pixel (x, y) is written to canvas position  *)
(* ((k mod 10)*80 + (80-w)/2 + x, (k div 10)*45 + (45-h)/2 + y); the write *)
(* lies inside the canvas of 80*min(tile_count, 10) by 45*rows pixels, and *)
(* writes of two different positions never touch the same canvas pixel:    *)
(* every write of position k lies in the tile rectangle of k, and the tile *)
(* rectangles of two different positions below tile_count are different.   *)
C13_BlitPositions ==
  (atlas_pc \in {"blit", "done"} /\ tile_width <= ATLAS_TILE_WIDTH
     /\ tile_height <= ATLAS_TILE_HEIGHT) =>
    /\ atlas_result # "panic"
    /\ tile_count <= 100
    /\ out_width = 80 * Min(tile_count, 10)
    /\ thumb_pos >= 1 =>
         LET k == thumb_pos - 1
         IN  /\ k < tile_count
             /\ \A x \in 0..(tile_width - 1), y \in 0..(tile_height - 1) :
                  LET di == blit_writes[y * tile_width + x + 1]
                      cx == (k % 10) * 80 + (80 - tile_width) \div 2 + x
                      cy == (k \div 10) * 45 + (45 - tile_height) \div 2 + y
                  IN  /\ di % 4 = 0
                      /\ CanvasX(di) = cx /\ CanvasY(di) = cy
                      /\ cx < out_width /\ cy < out_height
                      /\ di + 3 < out_width * out_height * 4
                      /\ cx \div 80 = k % 10 /\ cy \div 45 = k \div 10
             /\ \A j \in 0..(tile_count - 1) :
                  j # k => << j % 10, j \div 10 >> # << k % 10, k \div 10 >>

(* The last frame of a full page of 100 tiles has been written: the tile   *)
(* in the last column of the last row, with both blank offsets above 0.    *)
C13_Witness ==
  /\ atlas_pc = "blit"
  /\ tile_count = 100 /\ thumb_pos = 100
  /\ tile_width = 1 /\ tile_height = 1
  /\ blit_writes = << ((9 * 80 + 39) + 800 * (9 * 45 + 22)) * 4 >>

============================================================================
